---------------------------- MODULE Spec2Model ----------------------------
(***************************************************************************)
(* Brain-mask refinement of niworkflows/interfaces/freesurfer.py:          *)
(* refine_aseg (closing + hole filling of the binarized aseg) and          *)
(* grow_mask (boundary growth by a local z-score test, then opening).      *)
(*                                                                         *)
(* Volumes are 3-D arrays, modelled as functions from voxel indices        *)
(* <<x, y, z>> (0-based, as numpy) to integers.  The volumes explored are  *)
(* thin: NX voxels along x and one voxel along y and z.                    *)
(* Intensities are real numbers in the code; here they are integers that   *)
(* count multiples of 1.0e-5, so that the floor on sigma is 1 and every    *)
(* comparison of the z-score test is exact integer arithmetic.             *)
(***************************************************************************)
EXTENDS Integers, Sequences, FiniteSets, TLC

\* ------------------------------------------------------------------ bounds
NX == 7              \* voxels along the x axis
MaxLabelled == 2     \* grow_mask's asegs are labelled on this many voxels
MaxIntensity == 4    \* anatomical intensities range over 0..MaxIntensity
MaxBall == 1         \* refine_aseg's ball_size: 0..MaxBall and the default
LargeZval == 1000    \* the very large z-score threshold
MaxAxis == 5         \* window extraction: every axis has 1..MaxAxis voxels
MaxLines == 2        \* transform files have 1..MaxLines lines
MaxOver == 1         \* lines are up to MaxOver characters over the limit
MaxCalls == 2        \* fix_lta_length is called up to MaxCalls times on a file

\* ------------------------------------------------------- program constants
GM == 3                  \* the gray-matter code after the collapse
RightGM == 42            \* the other hemisphere's gray-matter code
AtroposGM == 2           \* gray matter in the auxiliary segmentation
DefaultBallSize == 4     \* refine_aseg(aseg, ball_size=4)
DefaultZval == 2         \* grow_mask(..., zval=2.0, ...)
SigmaFloor == 1          \* 1.0e-5, in units of 1.0e-5
Uint8 == 256             \* np.uint8 arithmetic wraps modulo 2^8
TooLong == 255           \* len(line.strip("\n")) >= 255
HiresBelow == 95         \* 1 - 0.05 mm, in hundredths of a millimetre
RefBelow == 120          \* 1.2 mm, in hundredths of a millimetre

\* ------------------------------------------------------ parameters tried
HalfWidths == {1, 2}                               \* ww
Radii == {0, 1, 2}                                 \* bw
BallSizes == (0..MaxBall) \cup {DefaultBallSize}   \* ball_size

\* ---------------------------------------------------------------- volumes
Shape == <<NX, 1, 1>>

Vox == {<<x, y, z>> : x \in 0..(Shape[1] - 1), y \in 0..(Shape[2] - 1),
                      z \in 0..(Shape[3] - 1)}

Zeros == [v \in Vox |-> 0]

\* np.argwhere lists the indices in C (row-major) order.
ScanLess(p, q) ==
  \/ p[1] < q[1]
  \/ p[1] = q[1] /\ p[2] < q[2]
  \/ p[1] = q[1] /\ p[2] = q[2] /\ p[3] < q[3]

RECURSIVE ArgWhere(_)
ArgWhere(S) ==
  IF S = {} THEN <<>>
  ELSE LET first == CHOOSE p \in S : \A q \in S \ {p} : ScanLess(p, q)
       IN  <<first>> \o ArgWhere(S \ {first})

\* --------------------------------------------------------------- morphology
\* skimage.morphology.ball(radius): the offsets with squared norm <= radius^2.
BallOffsets(radius) ==
  {d \in (-radius..radius) \X (-radius..radius) \X (-radius..radius) :
     d[1] * d[1] + d[2] * d[2] + d[3] * d[3] <= radius * radius}

\* The balls of every radius in use, computed once.
MaxRadius == CHOOSE r \in Radii \cup BallSizes : \A other \in Radii \cup BallSizes : other <= r

Balls == [radius \in 0..MaxRadius |-> BallOffsets(radius)]

Ball(radius) == Balls[radius]

Shift(p, d) == <<p[1] + d[1], p[2] + d[2], p[3] + d[3]>>

Offset(p, q) == <<q[1] - p[1], q[2] - p[2], q[3] - p[3]>>

\* skimage binary_dilation: voxels outside the volume count as 0, so only the
\* voxels q of the volume that selem reaches from p matter.
BinaryDilation(img, selem) ==
  [p \in Vox |->
     IF \E q \in Vox : Offset(p, q) \in selem /\ img[q] # 0 THEN 1 ELSE 0]

\* A variant of the erosion with scipy's default border: voxels outside the
\* volume count as 0, so a voxel whose selem leaves the volume is eroded.
BinaryErosionZeroBorder(img, selem) ==
  [p \in Vox |->
     IF /\ \A q \in Vox : Offset(p, q) \in selem => img[q] # 0
        /\ \A d \in selem : Shift(p, d) \in Vox
     THEN 1 ELSE 0]

\* skimage binary_erosion: voxels outside the volume count as 1.
BinaryErosion(img, selem) ==
  [p \in Vox |->
     IF \A q \in Vox : Offset(p, q) \in selem => img[q] # 0 THEN 1 ELSE 0]

BinaryClosing(img, selem) == BinaryErosion(BinaryDilation(img, selem), selem)

\* A variant of the opening that dilates without eroding first.
BinaryOpeningDilationOnly(img, selem) == BinaryDilation(img, selem)

BinaryOpening(img, selem) == BinaryDilation(BinaryErosion(img, selem), selem)

\* scipy binary_fill_holes: dilate the empty image inside the background,
\* with the outside of the volume counting as 1, until nothing changes; the
\* voxels never reached are the holes and the foreground.
RECURSIVE Flood(_, _, _)
Flood(reached, background, structure) ==
  LET next == reached \cup
        {p \in background :
           \/ \E q \in reached : Offset(p, q) \in structure
           \/ \E d \in structure : Shift(p, d) \notin Vox}
  IN  IF next = reached THEN reached ELSE Flood(next, background, structure)

BinaryFillHoles(img, structure) ==
  LET background == {p \in Vox : img[p] = 0}
      outside == Flood({}, background, structure)
  IN  [p \in Vox |-> IF p \in outside THEN 0 ELSE 1]


\* ------------------------------------------------------------- refine_aseg
\* bmask = aseg.copy(); bmask[bmask > 0] = 1; bmask.astype(np.uint8)
Binarize(labels) ==
  [p \in Vox |-> IF labels[p] > 0 THEN 1 ELSE labels[p] % Uint8]

RefineAseg(labels, radius) ==
  BinaryFillHoles(BinaryClosing(Binarize(labels), Ball(radius)), Ball(radius))

\* --------------------------------------------------------------- grow_mask
\* A variant that leaves the right hemisphere's code alone.
CollapseNothing(labels) == labels

\* aseg[aseg == 42] = 3
Collapse(labels) ==
  [p \in Vox |-> IF labels[p] = RightGM THEN GM ELSE labels[p]]

\* gm = anat.copy(); gm[aseg != 3] = 0
Template(intensity, labels) ==
  [p \in Vox |-> IF labels[p] # GM THEN 0 ELSE intensity[p]]

\* A variant of the shell that dilates by one voxel more than asked.
ShellOfWider(mask, radius) ==
  LET dilated == BinaryDilation(mask, BallOffsets(radius + 1))
  IN  [p \in Vox |-> (dilated[p] - mask[p]) % Uint8]

\* sim.binary_dilation(refined, selem) - refined, a bool minus a uint8
ShellOf(mask, radius) ==
  LET dilated == BinaryDilation(mask, Ball(radius))
  IN  [p \in Vox |-> (dilated[p] - mask[p]) % Uint8]

Candidates(shell) == {p \in Vox : shell[p] > 0}

\* One bound of a Python slice on an axis of length n: a negative bound
\* counts from the end, and every bound is clamped to 0..n.
SliceBound(i, n) ==
  IF i < 0 THEN (IF i + n < 0 THEN 0 ELSE i + n)
  ELSE (IF i > n THEN n ELSE i)

SliceIdx(start, stop, n) ==
  {i \in 0..(n - 1) : SliceBound(start, n) <= i /\ i < SliceBound(stop, n)}

\* gm[p0 - ww:p0 + ww, p1 - ww:p1 + ww, p2 - ww:p2 + ww] for a template of
\* the given shape: the indices the three slices select.
WindowIn(shape, pixel, halfwidth) ==
  {v \in (0..(shape[1] - 1)) \X (0..(shape[2] - 1)) \X (0..(shape[3] - 1)) :
     \A axis \in 1..3 :
       v[axis] \in SliceIdx(pixel[axis] - halfwidth, pixel[axis] + halfwidth,
                            shape[axis])}

\* A variant of the window whose bounds are clipped to the volume.
WindowClipped(pixel, halfwidth) ==
  {v \in Vox : \A axis \in 1..3 :
     /\ pixel[axis] - halfwidth <= v[axis]
     /\ v[axis] < pixel[axis] + halfwidth}

\* The window in the volumes of shape Shape.
Window(pixel, halfwidth) == WindowIn(Shape, pixel, halfwidth)

Positive(template, window) == {v \in window : template[v] > 0}

RECURSIVE SumOver(_, _)
SumOver(S, f) ==
  IF S = {} THEN 0
  ELSE LET v == CHOOSE w \in S : TRUE IN f[v] + SumOver(S \ {v}, f)

Abs(i) == IF i < 0 THEN -i ELSE i

\* A variant of the test without the floor on sigma.
ZTestNoFloor(a, template, pos, threshold) ==
  LET k == Cardinality(pos)
      S == SumOver(pos, template)
      Q == SumOver(pos, [v \in Vox |-> template[v] * template[v]])
      dev == Abs(k * a - S)
  IN  IF threshold > 0 /\ dev * dev < threshold * threshold * (k * Q - S * S)
      THEN 1 ELSE 0

\* A variant of the test that compares with the default threshold, whatever
\* zval was passed.
ZTestDefaultThreshold(a, template, pos, threshold) ==
  LET k == Cardinality(pos)
      S == SumOver(pos, template)
      Q == SumOver(pos, [v \in Vox |-> template[v] * template[v]])
      dev == Abs(k * a - S)
  IN  IF \/ dev * dev < DefaultZval * DefaultZval * (k * Q - S * S)
         \/ dev < DefaultZval * k * SigmaFloor
      THEN 1 ELSE 0

\* int(zstat < zval) with mu and sigma over the positive values `pos` of the
\* window.  With k values of sum S and sum of squares Q:
\*   mu = S / k,  sigma = sqrt(k * Q - S * S) / k,
\* so zstat < zval is  |k*a - S| < zval * max(sqrt(k*Q - S*S), k * 1.0e-5).
ZTest(a, template, pos, threshold) ==
  LET k == Cardinality(pos)
      S == SumOver(pos, template)
      Q == SumOver(pos, [v \in Vox |-> template[v] * template[v]])
      dev == Abs(k * a - S)
  IN  IF /\ threshold > 0
         /\ \/ dev * dev < threshold * threshold * (k * Q - S * S)
            \/ dev < threshold * k * SigmaFloor
      THEN 1 ELSE 0

\* Variants of the loop body, each with one slip:
\* the `continue` after the auxiliary-segmentation match is missing;
PixelStepNoContinue(mask, pixel, intensity, template, segs, halfwidth, threshold) ==
  LET pos == Positive(template, Window(pixel, halfwidth))
      marked == IF segs[pixel] = AtroposGM THEN [mask EXCEPT ![pixel] = 1]
                ELSE mask
  IN  IF pos # {}
      THEN [marked EXCEPT ![pixel] =
              ZTest(intensity[pixel], template, pos, threshold)]
      ELSE marked

\* a window without positive values counts as a match.
PixelStepEmptyMatches(mask, pixel, intensity, template, segs, halfwidth, threshold) ==
  IF segs[pixel] = AtroposGM
  THEN [mask EXCEPT ![pixel] = 1]
  ELSE LET pos == Positive(template, Window(pixel, halfwidth))
       IN  [mask EXCEPT ![pixel] =
              IF pos # {}
              THEN ZTest(intensity[pixel], template, pos, threshold)
              ELSE 1]

\* the samples are taken from the mask as grown so far, not from the
\* template.
PixelStepGrowing(mask, pixel, intensity, template, segs, halfwidth, threshold) ==
  IF segs[pixel] = AtroposGM
  THEN [mask EXCEPT ![pixel] = 1]
  ELSE LET grown == [v \in Vox |-> IF mask[v] # 0 THEN intensity[v] ELSE 0]
           pos == Positive(grown, Window(pixel, halfwidth))
       IN  IF pos # {}
           THEN [mask EXCEPT ![pixel] =
                   ZTest(intensity[pixel], grown, pos, threshold)]
           ELSE mask

\* The body of the loop for one candidate voxel: the refined mask after it.
PixelStep(mask, pixel, intensity, template, segs, halfwidth, threshold) ==
  IF segs[pixel] = AtroposGM
  THEN [mask EXCEPT ![pixel] = 1]
  ELSE LET pos == Positive(template, Window(pixel, halfwidth))
       IN  IF pos # {}
           THEN [mask EXCEPT ![pixel] =
                   ZTest(intensity[pixel], template, pos, threshold)]
           ELSE mask

RECURSIVE PixelLoop(_, _, _, _, _, _, _)
PixelLoop(mask, todo, intensity, template, segs, halfwidth, threshold) ==
  IF todo = <<>> THEN mask
  ELSE PixelLoop(PixelStep(mask, Head(todo), intensity, template, segs,
                           halfwidth, threshold),
                 Tail(todo), intensity, template, segs, halfwidth, threshold)

\* grow_mask as a function of its arguments (segs already defaulted).
GrowMask(intensity, labels, segs, halfwidth, threshold, radius) ==
  LET collapsed == Collapse(labels)
      template == Template(intensity, collapsed)
      base == RefineAseg(collapsed, DefaultBallSize)
      todo == ArgWhere(Candidates(ShellOf(base, radius)))
      grown == PixelLoop(base, todo, intensity, template, segs, halfwidth,
                         threshold)
  IN  BinaryOpening(grown, Ball(radius))

\* ------------------------------------------------------------------ inputs
None == <<>>             \* an argument not given, a local not yet assigned

\* Label codes: 0 (background), the two gray-matter codes, and another
\* positive code (2, white matter).
Labels == {2, GM, RightGM}

\* grow_mask's label volumes: the first MaxLabelled voxels along x carry any
\* label or none, the rest of the volume is background.
AsegInputs ==
  {f \in [Vox -> {0} \cup Labels] : \A p \in Vox : f[p] # 0 => p[1] < MaxLabelled}

\* refine_aseg's label volumes when called on its own: every voxel is
\* background (0), labelled (1) or carries a negative value (-1).
RefineInputs == [Vox -> {-1, 0, 1}]

\* Intensity volumes: a profile of three values repeated along x, so that
\* any three consecutive voxels take every combination of intensities.
AnatInputs ==
  {[p \in Vox |-> prof[p[1] % 3]] : prof \in [0..2 -> 0..MaxIntensity]}

\* Auxiliary segmentations: a profile of two classes repeated along x.
AntsInputs ==
  {[p \in Vox |-> prof[p[1] % 2]] : prof \in [0..1 -> {0, AtroposGM}]}

\* ---------------------------------------------------------- state machine
VARIABLES
  call,        \* the routine the caller invoked
  pc,          \* the statement about to run
  anat,        \* caller's intensity array
  aseg,        \* caller's label array
  ants_segs,   \* the auxiliary segmentation (None when not given)
  ww, zval, bw,
  ball_size,   \* refine_aseg's argument in the current activation
  aseg_in,     \* history: the label array as it was when the call was made
  gm,          \* grow_mask's gray-matter template
  bmask,       \* refine_aseg's binarized copy
  newmask,     \* refine_aseg's result so far
  refined,     \* grow_mask's mask
  newrefmask,  \* the candidate shell
  indices,     \* candidates still to visit, in scan order
  tested,      \* history: candidates whose window was extracted
  out,         \* the value returned
  disk,        \* the file system: the contents of each path that exists
  args,        \* the arguments of the other routines, by name
  locals,      \* the local variables of the other routines, by name
  hist         \* history: what the properties of the other routines need

\* The variables of refine_aseg and grow_mask.
maskVars == <<anat, aseg, ants_segs, ww, zval, bw, ball_size, aseg_in,
              gm, bmask, newmask, refined, newrefmask, indices, tested>>

\* The variables of the routines that work on files and file lists.
fileVars == <<disk, args, locals, hist>>

vars == <<call, pc, anat, aseg, ants_segs, ww, zval, bw, ball_size, aseg_in,
          gm, bmask, newmask, refined, newrefmask, indices, tested, out,
          disk, args, locals, hist>>

\* No file routine is running.
NoFileCall == disk = None /\ args = None /\ locals = None /\ hist = None

InitLocals ==
  /\ gm = None /\ bmask = None /\ newmask = None /\ refined = None
  /\ newrefmask = None /\ indices = <<>> /\ tested = {} /\ out = None
  /\ NoFileCall

\* refine_aseg(aseg, ball_size)
InitRefine ==
  /\ call = "refine_aseg" /\ pc = "binarize"
  /\ aseg \in RefineInputs /\ aseg_in = aseg
  /\ ball_size \in BallSizes
  /\ anat = None /\ ants_segs = None /\ ww = 0 /\ zval = 0 /\ bw = 0
  /\ InitLocals

\* grow_mask(anat, aseg, ants_segs, ww, zval, bw)
InitGrow(threshold) ==
  /\ call = "grow_mask" /\ pc = "start"
  /\ aseg \in AsegInputs /\ aseg_in = aseg
  /\ anat \in AnatInputs
  /\ ants_segs \in AntsInputs \cup {None}
  /\ ww \in HalfWidths /\ bw \in Radii /\ zval = threshold
  /\ ball_size = 0
  /\ InitLocals

\* Calls with the default zval.
Init == InitRefine \/ InitGrow(DefaultZval)

\* Calls with a very large zval.
InitLargeZval == InitRefine \/ InitGrow(LargeZval)

\* lines 506-515: ants_segs defaults to zeros, the collapse is written into
\* the caller's array, the template is built, and refine_aseg(aseg) runs with
\* the default ball_size on the collapsed array and returns the base mask
GrowPrepare ==
  /\ pc = "start"
  /\ ants_segs' = IF ants_segs = None THEN Zeros ELSE ants_segs
  /\ aseg' = Collapse(aseg)
  /\ gm' = Template(anat, Collapse(aseg))
  /\ ball_size' = DefaultBallSize
  /\ bmask' = Binarize(Collapse(aseg))
  /\ newmask' = RefineAseg(Collapse(aseg), DefaultBallSize)
  /\ refined' = RefineAseg(Collapse(aseg), DefaultBallSize)
  /\ pc' = "shell"
  /\ UNCHANGED <<call, anat, ww, zval, bw, aseg_in, newrefmask, indices,
                 tested, out>>
  /\ UNCHANGED fileVars

\* refine_aseg called on its own, lines 483-485
RefineBinarize ==
  /\ pc = "binarize"
  /\ bmask' = Binarize(aseg)
  /\ pc' = "close"
  /\ UNCHANGED <<call, anat, aseg, ants_segs, ww, zval, bw, ball_size, aseg_in,
                 gm, newmask, refined, newrefmask, indices, tested, out>>
  /\ UNCHANGED fileVars

\* lines 488-489
RefineClose ==
  /\ pc = "close"
  /\ newmask' = BinaryClosing(bmask, Ball(ball_size))
  /\ pc' = "fill"
  /\ UNCHANGED <<call, anat, aseg, ants_segs, ww, zval, bw, ball_size, aseg_in,
                 gm, bmask, refined, newrefmask, indices, tested, out>>
  /\ UNCHANGED fileVars

\* lines 490-492
RefineFill ==
  /\ pc = "fill"
  /\ newmask' = BinaryFillHoles(newmask, Ball(ball_size))
  /\ out' = BinaryFillHoles(newmask, Ball(ball_size))
  /\ pc' = "done"
  /\ UNCHANGED <<call, anat, aseg, ants_segs, ww, zval, bw, ball_size, aseg_in,
                 gm, bmask, refined, newrefmask, indices, tested>>
  /\ UNCHANGED fileVars

\* lines 516-517
GrowShell ==
  /\ pc = "shell"
  /\ newrefmask' = ShellOf(refined, bw)
  /\ indices' = ArgWhere(Candidates(ShellOf(refined, bw)))
  /\ pc' = "loop"
  /\ UNCHANGED <<call, anat, aseg, ants_segs, ww, zval, bw, ball_size, aseg_in,
                 gm, bmask, newmask, refined, tested, out>>
  /\ UNCHANGED fileVars

\* lines 518-533: one iteration of the loop
GrowPixel ==
  /\ pc = "loop" /\ indices # <<>>
  /\ refined' = PixelStep(refined, Head(indices), anat, gm, ants_segs, ww, zval)
  /\ tested' = IF ants_segs[Head(indices)] = AtroposGM THEN tested
               ELSE tested \cup {Head(indices)}
  /\ indices' = Tail(indices)
  /\ UNCHANGED <<call, pc, anat, aseg, ants_segs, ww, zval, bw, ball_size,
                 aseg_in, gm, bmask, newmask, newrefmask, out>>
  /\ UNCHANGED fileVars

\* lines 535-536, once the loop is exhausted
GrowOpen ==
  /\ pc = "loop" /\ indices = <<>>
  /\ refined' = BinaryOpening(refined, Ball(bw))
  /\ out' = BinaryOpening(refined, Ball(bw))
  /\ pc' = "done"
  /\ UNCHANGED <<call, anat, aseg, ants_segs, ww, zval, bw, ball_size, aseg_in,
                 gm, bmask, newmask, newrefmask, indices, tested>>
  /\ UNCHANGED fileVars

Next ==
  \/ GrowPrepare
  \/ RefineBinarize \/ RefineClose \/ RefineFill
  \/ GrowShell \/ GrowPixel \/ GrowOpen

Spec == Init /\ [][Next]_vars

\* The loop of lines 518-533 with its iterations taken in any order: any
\* candidate still to visit is next.
RemoveAt(seq, i) == SubSeq(seq, 1, i - 1) \o SubSeq(seq, i + 1, Len(seq))

GrowPixelAnyOrder ==
  /\ pc = "loop" /\ indices # <<>>
  /\ \E i \in 1..Len(indices) :
       /\ refined' = PixelStep(refined, indices[i], anat, gm, ants_segs, ww, zval)
       /\ tested' = IF ants_segs[indices[i]] = AtroposGM THEN tested
                    ELSE tested \cup {indices[i]}
       /\ indices' = RemoveAt(indices, i)
  /\ UNCHANGED <<call, pc, anat, aseg, ants_segs, ww, zval, bw, ball_size,
                 aseg_in, gm, bmask, newmask, newrefmask, out>>
  /\ UNCHANGED fileVars

NextAnyOrder ==
  \/ GrowPrepare
  \/ RefineBinarize \/ RefineClose \/ RefineFill
  \/ GrowShell \/ GrowPixelAnyOrder \/ GrowOpen

SpecAnyOrder == Init /\ [][NextAnyOrder]_vars

SpecLargeZval == InitLargeZval /\ [][Next]_vars

\* ------------------------------------------------------------- properties
Range(seq) == {seq[i] : i \in 1..Len(seq)}

InLoop == call = "grow_mask" /\ pc = "loop"

\* The candidates the loop has already visited.
Visited == Candidates(newrefmask) \ Range(indices)

\* The positive template values the loop reads for candidate p.
Samples(p) == Positive(gm, Window(p, ww))

\* |anat[p] - mu| / max(sigma, 1.0e-5) < threshold, from the sums over the
\* samples: n values, sum s1, sum of squares s2, so mu = s1 / n and
\* (n * sigma)^2 = n * s2 - s1^2.  The floor applies when sigma < 1.0e-5.
ZScoreBelow(p, threshold) ==
  LET n == Cardinality(Samples(p))
      s1 == SumOver(Samples(p), gm)
      s2 == SumOver(Samples(p), [v \in Vox |-> gm[v] * gm[v]])
      nsigma2 == n * s2 - s1 * s1
      ndev == Abs(n * anat[p] - s1)
  IN  /\ threshold > 0
      /\ IF nsigma2 < n * n * SigmaFloor * SigmaFloor
         THEN ndev < threshold * n * SigmaFloor
         ELSE ndev * ndev < threshold * threshold * nsigma2

\* |anat[p] - mu| > zval * sigma, without the floor
FartherThanZSigma(p) ==
  LET n == Cardinality(Samples(p))
      s1 == SumOver(Samples(p), gm)
      s2 == SumOver(Samples(p), [v \in Vox |-> gm[v] * gm[v]])
      ndev == Abs(n * anat[p] - s1)
  IN  ndev * ndev > zval * zval * (n * s2 - s1 * s1)

\* C1: every visited candidate at which ants_segs is 2 is set in the refined
\* mask, before the opening, and its window was never extracted, whatever
\* its intensity and its window are.
C1_AuxiliaryMatchWins ==
  InLoop =>
    \A p \in Visited :
      ants_segs[p] = AtroposGM => refined[p] = 1 /\ p \notin tested

\* C1 witness: the loop is over, and a candidate with ants_segs 2 is set
\* although its window has samples and its z-score is not below zval.
C1_Witness ==
  /\ InLoop /\ indices = <<>>
  /\ \E p \in Visited :
       /\ ants_segs[p] = AtroposGM /\ refined[p] = 1
       /\ Samples(p) # {} /\ ~ZScoreBelow(p, zval)

\* C2 (as amended): a visited candidate where ants_segs is not 2 and whose
\* window has a positive value is set if and only if
\* |anat - mu| / max(sigma, 1.0e-5) < zval, so a candidate at least
\* zval * max(sigma, 1.0e-5) away from mu is excluded.
C2_ZScoreDecides ==
  InLoop =>
    \A p \in Visited :
      (ants_segs[p] # AtroposGM /\ Samples(p) # {}) =>
         /\ p \in tested
         /\ refined[p] \in {0, 1}
         /\ refined[p] = 1 <=> ZScoreBelow(p, zval)

\* C2 witness: sigma is above the floor; one candidate passed the test and
\* another one failed it.
C2_Witness ==
  /\ InLoop /\ indices = <<>>
  /\ \E p, q \in Visited :
       /\ ants_segs[p] # AtroposGM /\ ants_segs[q] # AtroposGM
       /\ Samples(p) # {} /\ Samples(q) # {}
       /\ ~FartherThanZSigma(p) /\ anat[p] # anat[q]
       /\ refined[p] = 1 /\ refined[q] = 0

\* C2 as stated: in particular a candidate farther than zval * sigma from mu
\* is excluded.
C2_AsStated ==
  InLoop =>
    \A p \in Visited :
      (ants_segs[p] # AtroposGM /\ Samples(p) # {}) =>
         /\ refined[p] = 1 <=> ZScoreBelow(p, zval)
         /\ FartherThanZSigma(p) => refined[p] = 0

\* C3: a visited candidate where ants_segs is not 2 and whose window has no
\* positive value stays 0 in the refined mask; the iteration completes (the
\* candidate is visited), also when the window is empty.
C3_NoSamplesUnmarked ==
  InLoop =>
    \A p \in Visited :
      (ants_segs[p] # AtroposGM /\ Samples(p) = {}) => refined[p] = 0

\* C3 witness: the loop is over; one such candidate had an empty window and
\* another one a window of non-positive values only.
C3_Witness ==
  /\ InLoop /\ indices = <<>>
  /\ \E p, q \in Visited :
       /\ ants_segs[p] # AtroposGM /\ ants_segs[q] # AtroposGM
       /\ Window(p, ww) = {} /\ refined[p] = 0
       /\ Window(q, ww) # {} /\ Samples(q) = {} /\ refined[q] = 0

\* refine_aseg has returned, to its caller or to grow_mask at line 515:
\* newmask is the mask it returned.
RefineReturned ==
  \/ call = "refine_aseg" /\ pc = "done"
  \/ call = "grow_mask" /\ pc # "start"

\* C4: the output of refine_aseg is a 0/1 volume that is 1 wherever the label
\* is positive, on the faces of the volume too.
C4_RefineCoversInput ==
  RefineReturned =>
    \A p \in Vox :
      /\ newmask[p] \in {0, 1}
      /\ newmask[p] >= (IF aseg_in[p] > 0 THEN 1 ELSE 0)

\* C4 witness: refine_aseg with a ball of radius 1 or more returned a mask
\* that keeps a labelled voxel on the face x = 0, adds a background voxel to
\* it and leaves another one out.
C4_Witness ==
  /\ call = "refine_aseg" /\ pc = "done" /\ ball_size >= 1
  /\ aseg_in[<<0, 0, 0>>] > 0 /\ out[<<0, 0, 0>>] = 1
  /\ \E q, r \in Vox :
       /\ aseg_in[q] = 0 /\ out[q] = 1
       /\ aseg_in[r] = 0 /\ out[r] = 0

IsBinary(img) == \A p \in Vox : img[p] \in {0, 1}

\* No enclosed holes: every background voxel is joined to the outside of the
\* volume by a path of face-adjacent background voxels.
HoleFree(img) == BinaryFillHoles(img, BallOffsets(1)) = img

\* C5 as stated: refine_aseg returns a closed, hole-free binary mask
\* unchanged, and refining its own output changes nothing.
C5_AsStated ==
  (call = "refine_aseg" /\ pc = "done") =>
     /\ ( /\ IsBinary(aseg_in)
          /\ BinaryClosing(aseg_in, Ball(ball_size)) = aseg_in
          /\ HoleFree(aseg_in) ) => out = aseg_in
     /\ RefineAseg(out, ball_size) = out

\* C5, the part that holds: with a ball of radius 1 or more a closed,
\* hole-free binary mask is returned unchanged; with any ball, refining the
\* output again changes nothing.
C5_FixedPoints ==
  (call = "refine_aseg" /\ pc = "done") =>
     /\ ( /\ ball_size >= 1
          /\ IsBinary(aseg_in)
          /\ BinaryClosing(aseg_in, Ball(ball_size)) = aseg_in
          /\ HoleFree(aseg_in) ) => out = aseg_in
     /\ RefineAseg(out, ball_size) = out

\* C6 as stated: no step of either routine changes an array of the caller.
C6_AsStated ==
  [][/\ anat' = anat
     /\ aseg' = aseg
     /\ ants_segs # None => ants_segs' = ants_segs]_vars

\* C6, the part that holds: anat and ants_segs are never written, and
\* refine_aseg called on its own leaves aseg alone.
C6_OtherInputsUntouched ==
  [][/\ anat' = anat
     /\ ants_segs # None => ants_segs' = ants_segs
     /\ call = "refine_aseg" => aseg' = aseg]_vars

\* Every 42 relabelled to 3 by the caller, before the call.
Relabelled(labels) == [p \in Vox |-> IF labels[p] = 42 THEN 3 ELSE labels[p]]

\* C7: grow_mask returns the mask it returns for the aseg with every 42
\* relabelled to 3, with the same gray-matter template and base mask.
C7_RightAsLeft ==
  (call = "grow_mask" /\ pc = "done") =>
     /\ out = GrowMask(anat, Relabelled(aseg_in), ants_segs, ww, zval, bw)
     /\ gm = Template(anat, Relabelled(aseg_in))
     /\ newmask = RefineAseg(Relabelled(aseg_in), DefaultBallSize)

\* C7 witness: an aseg whose only gray matter is labelled 42, and a candidate
\* that the z-score test against that gray matter added to the mask returned.
C7_Witness ==
  /\ call = "grow_mask" /\ pc = "done"
  /\ \E p \in Vox : aseg_in[p] = 42 /\ anat[p] > 0
  /\ \A p \in Vox : aseg_in[p] # 3
  /\ \E p \in Candidates(newrefmask) :
       ants_segs[p] # AtroposGM /\ Samples(p) # {} /\ out[p] = 1

\* C8: in whatever order the candidates are visited, the refined mask at the
\* end of the loop is the one the scan order gives, and an iteration writes
\* nothing but its own cell of the refined mask.
C8_OrderIndependent ==
  /\ (InLoop /\ indices = <<>>) =>
        refined = PixelLoop(newmask, ArgWhere(Candidates(newrefmask)), anat, gm,
                            ants_segs, ww, zval)
  /\ InLoop =>
        \A p \in Vox \ Visited : refined[p] = newmask[p]

\* C8 witness: the loop is over, two candidates were visited, the later one
\* in scan order first, and the test added one of them and not the other.
C8_Witness ==
  /\ InLoop /\ indices = <<>>
  /\ \E p, q \in Visited :
       /\ ScanLess(p, q)
       /\ ants_segs[p] # AtroposGM /\ ants_segs[q] # AtroposGM
       /\ Samples(p) # {} /\ Samples(q) # {}
       /\ refined[p] # refined[q]

C10_ZeroRadius ==
  (call = "grow_mask" /\ bw = 0) =>
     /\ pc = "loop" => Candidates(newrefmask) = {}
     /\ pc = "done" => out = RefineAseg(aseg_in, DefaultBallSize)

\* C10 witness: grow_mask returned with bw = 0; the base mask is neither
\* empty nor full, ants_segs is 2 at a voxel next to it, and that voxel is
\* not in the mask returned.
C10_Witness ==
  /\ call = "grow_mask" /\ pc = "done" /\ bw = 0
  /\ \E p, q \in Vox :
       /\ Offset(p, q) \in BallOffsets(1)
       /\ newmask[p] = 1 /\ newmask[q] = 0
       /\ ants_segs[q] = AtroposGM /\ out[q] = 0


\* ------------------------------------------- the window of lines 524-528
\* The window extraction of grow_mask's loop on its own, for templates of
\* every shape up to MaxAxis voxels along each axis.
NoMaskCall ==
  /\ anat = None /\ aseg = None /\ ants_segs = None
  /\ ww = 0 /\ zval = 0 /\ bw = 0 /\ ball_size = 0 /\ aseg_in = None
  /\ gm = None /\ bmask = None /\ newmask = None /\ refined = None
  /\ newrefmask = None /\ indices = <<>> /\ tested = {}

WindowInputs ==
  {a \in [shape : (1..MaxAxis) \X (1..MaxAxis) \X (1..MaxAxis),
          pixel : (0..(MaxAxis - 1)) \X (0..(MaxAxis - 1)) \X (0..(MaxAxis - 1)),
          ww : HalfWidths] :
     \A axis \in 1..3 : a.pixel[axis] < a.shape[axis]}

InitWindow ==
  /\ call = "window" /\ pc = "window"
  /\ args \in WindowInputs
  /\ out = None /\ disk = None /\ locals = None /\ hist = None
  /\ NoMaskCall

\* lines 524-528: window = gm[...] at candidate `pixel`
ExtractWindow ==
  /\ pc = "window"
  /\ out' = WindowIn(args.shape, args.pixel, args.ww)
  /\ pc' = "done"
  /\ UNCHANGED <<call, disk, args, locals, hist>>
  /\ UNCHANGED maskVars

NextWindow == ExtractWindow

SpecWindow == InitWindow /\ [][NextWindow]_vars

\* The candidate is at least ww voxels away from every face of the volume.
Interior ==
  \A axis \in 1..3 :
    /\ args.ww <= args.pixel[axis]
    /\ args.pixel[axis] + args.ww <= args.shape[axis] - 1

\* C11 as stated: for a candidate at least ww away from every face the
\* window is the cube of the indices p-ww through p+ww inclusive on every
\* axis, symmetric about the candidate.
C11_AsStated ==
  (call = "window" /\ pc = "done" /\ Interior) =>
     out = ((args.pixel[1] - args.ww)..(args.pixel[1] + args.ww))
           \X ((args.pixel[2] - args.ww)..(args.pixel[2] + args.ww))
           \X ((args.pixel[3] - args.ww)..(args.pixel[3] + args.ww))

\* What the slices select instead: p-ww through p+ww-1 on every axis, 2*ww
\* indices of which ww lie below the candidate and only ww-1 above it.
C11_HalfOpenWindow ==
  (call = "window" /\ pc = "done" /\ Interior) =>
     out = ((args.pixel[1] - args.ww)..(args.pixel[1] + args.ww - 1))
           \X ((args.pixel[2] - args.ww)..(args.pixel[2] + args.ww - 1))
           \X ((args.pixel[3] - args.ww)..(args.pixel[3] + args.ww - 1))


\* ---------------------------------------------- refine_aseg's binarization
\* The mask of the voxels with a label above zero.
PositiveOnly(labels) == [p \in Vox |-> IF labels[p] > 0 THEN 1 ELSE 0]

\* The mask of the voxels with a label other than zero.
NonZero(labels) == [p \in Vox |-> IF labels[p] # 0 THEN 1 ELSE 0]

\* C12 as stated: refine_aseg binarizes before any morphology, and a voxel
\* with a label of zero or less, a negative one included, is background to
\* the closing and to the hole filling.
C12_AsStated ==
  (call = "refine_aseg" /\ pc \in {"close", "fill", "done"}) =>
     /\ bmask = PositiveOnly(aseg_in)
     /\ pc = "done" => out = RefineAseg(PositiveOnly(aseg_in), ball_size)

\* What refine_aseg does instead: a label of -1 survives the binarization,
\* becomes 255 in the cast to uint8, and is foreground to the morphology.
C12_NegativeIsForeground ==
  (call = "refine_aseg" /\ pc = "done") =>
     out = RefineAseg(NonZero(aseg_in), ball_size)


\* ---------------------------------------------------------- fix_lta_length
\* Text is a sequence of characters; a file holds the characters written to
\* it.  LF and CR are the line feed and the carriage return.
LF == "LF"

CR == "CR"

\* "filename = "
FilenamePrefix == <<"f", "i", "l", "e", "n", "a", "m", "e", " ", "=", " ">>

\* "filename = path_too_long\n"
PathTooLong ==
  FilenamePrefix \o
  <<"p", "a", "t", "h", "_", "t", "o", "o", "_", "l", "o", "n", "g", LF>>

\* A variant of read_text that reads in binary mode: no newline translation.
ReadBinary(bytes) == bytes

\* Path.read_text(): the file is opened in text mode with universal
\* newlines, so CR LF and a lone CR are both read as LF.
ReadText(bytes) ==
  LET drop == {i \in 2..Len(bytes) : bytes[i] = LF /\ bytes[i - 1] = CR}
      from(k) == CHOOSE i \in k..(k + Cardinality(drop)) :
                   i \notin drop /\ i - Cardinality({d \in drop : d < i}) = k
  IN  [k \in 1..(Len(bytes) - Cardinality(drop)) |->
         LET c == bytes[from(k)] IN IF c = CR THEN LF ELSE c]

\* Path.write_text(): text mode on a POSIX system, where LF is written as
\* os.linesep, which is LF.
WriteText(text) == text

\* str.splitlines(keepends=True) on text whose only line boundary is LF.
SplitLines(text) ==
  LET ends == {i \in 1..Len(text) : text[i] = LF} \cup
              (IF text = <<>> THEN {} ELSE {Len(text)})
      endOf(k) == CHOOSE e \in ends : Cardinality({x \in ends : x <= e}) = k
      startOf(k) == IF k = 1 THEN 1 ELSE endOf(k - 1) + 1
  IN  [k \in 1..Cardinality(ends) |-> SubSeq(text, startOf(k), endOf(k))]

\* line.strip("\n"): the line without its leading and trailing LFs.
StripNewlines(line) ==
  LET n == Len(line)
      lead == CHOOSE k \in 0..n :
                /\ \A i \in 1..k : line[i] = LF
                /\ k = n \/ line[k + 1] # LF
      trail == CHOOSE k \in 0..n :
                 /\ \A i \in (n - k + 1)..n : line[i] = LF
                 /\ k = n \/ line[n - k] # LF
  IN  IF lead = n THEN <<>> ELSE SubSeq(line, lead + 1, n - trail)

\* line.startswith(prefix)
StartsWith(line, prefix) ==
  Len(line) >= Len(prefix) /\ SubSeq(line, 1, Len(prefix)) = prefix

\* "".join(lines)
RECURSIVE Join(_)
Join(lines) == IF lines = <<>> THEN <<>> ELSE Head(lines) \o Join(Tail(lines))

\* Variants of the test of line 404: only lines over the limit are fixed;
TooLongFilenameOver(line) ==
  StartsWith(line, FilenamePrefix) /\ Len(StripNewlines(line)) > TooLong

\* every long line is fixed, whatever it starts with;
TooLongFilenameAnyLine(line) == Len(StripNewlines(line)) >= TooLong

\* the newline counts in the length.
TooLongFilenameUnstripped(line) ==
  StartsWith(line, FilenamePrefix) /\ Len(line) >= TooLong

\* line 404: line.startswith("filename = ") and len(line.strip("\n")) >= 255
TooLongFilename(line) ==
  StartsWith(line, FilenamePrefix) /\ Len(StripNewlines(line)) >= TooLong

\* fix_lta_length as a function of the file's contents: the value returned
\* and the contents left on disk.
FixLtaLength(bytes) ==
  LET lines == SplitLines(ReadText(bytes))
      newfile == [k \in DOMAIN lines |->
                    IF TooLongFilename(lines[k]) THEN PathTooLong
                    ELSE lines[k]]
      fixed == \E k \in DOMAIN lines : TooLongFilename(lines[k])
  IN  [fixed |-> fixed,
       contents |-> IF fixed THEN WriteText(Join(newfile)) ELSE bytes]

\* Transform files: lines that start with "filename = " or only contain it,
\* short or around the limit, ended by LF or CR LF; the last line may lack
\* its line end.
Pad(n) == [i \in 1..n |-> "x"]

LineHeads == {FilenamePrefix, <<"#">> \o FilenamePrefix}

LineLengths ==
  {Len(FilenamePrefix) + 2} \cup ((TooLong - 1)..(TooLong + MaxOver))

LineEnds == {<<LF>>, <<CR, LF>>}

FullLines ==
  {head \o Pad(n - Len(head)) \o end :
     head \in LineHeads, n \in LineLengths, end \in LineEnds}

LastLines ==
  {head \o Pad(n - Len(head)) \o end :
     head \in LineHeads, n \in LineLengths, end \in LineEnds \cup {<<>>}}

RECURSIVE TextsOf(_)
TextsOf(n) ==
  IF n = 0 THEN {<<>>}
  ELSE {line \o rest : line \in FullLines, rest \in TextsOf(n - 1)}

LtaTexts ==
  {body \o last :
     body \in UNION {TextsOf(n) : n \in 0..(MaxLines - 1)}, last \in LastLines}

\* The path the caller passes; the file may be missing.
LtaPath == "transform.lta"

LtaDisks ==
  {[path \in {LtaPath} |-> text] : text \in LtaTexts} \cup {[path \in {} |-> <<>>]}

\* fix_lta_length(lta_file)
InitLta ==
  /\ call = "fix_lta_length" /\ pc = "lta_read"
  /\ args = [lta_file |-> LtaPath]
  /\ disk \in LtaDisks
  /\ locals = [lines |-> <<>>, fixed |-> FALSE, newfile |-> <<>>, i |-> 0]
  /\ hist = [orig |-> disk, wrote |-> <<>>, results |-> <<>>, after |-> <<>>]
  /\ out = None
  /\ NoMaskCall

\* line 399; a missing file raises FileNotFoundError
LtaRead ==
  /\ pc = "lta_read"
  /\ IF args.lta_file \in DOMAIN disk
     THEN /\ locals' = [lines |-> SplitLines(ReadText(disk[args.lta_file])),
                        fixed |-> FALSE, newfile |-> <<>>, i |-> 1]
          /\ pc' = "lta_loop"
     ELSE /\ pc' = "raised"
          /\ UNCHANGED locals
  /\ UNCHANGED <<call, out, disk, args, hist>>
  /\ UNCHANGED maskVars

\* lines 403-408: one iteration of the loop
LtaLine ==
  /\ pc = "lta_loop" /\ locals.i <= Len(locals.lines)
  /\ locals' =
       IF TooLongFilename(locals.lines[locals.i])
       THEN [locals EXCEPT !.fixed = TRUE,
                           !.newfile = Append(@, PathTooLong),
                           !.i = @ + 1]
       ELSE [locals EXCEPT !.newfile = Append(@, locals.lines[locals.i]),
                           !.i = @ + 1]
  /\ UNCHANGED <<call, pc, out, disk, args, hist>>
  /\ UNCHANGED maskVars

\* lines 410-412, once the loop is exhausted
LtaReturn ==
  /\ pc = "lta_loop" /\ locals.i > Len(locals.lines)
  /\ disk' = IF locals.fixed
             THEN [disk EXCEPT ![args.lta_file] = WriteText(Join(locals.newfile))]
             ELSE disk
  /\ out' = locals.fixed
  /\ hist' = [hist EXCEPT
                !.wrote = Append(@, locals.fixed),
                !.results = Append(@, locals.fixed),
                !.after = Append(@, disk')]
  /\ pc' = "done"
  /\ UNCHANGED <<call, args, locals>>
  /\ UNCHANGED maskVars

\* The caller calls fix_lta_length on the same file once more.
LtaCallAgain ==
  /\ call = "fix_lta_length" /\ pc = "done"
  /\ Len(hist.results) < MaxCalls
  /\ locals' = [lines |-> <<>>, fixed |-> FALSE, newfile |-> <<>>, i |-> 0]
  /\ out' = None
  /\ pc' = "lta_read"
  /\ UNCHANGED <<call, disk, args, hist>>
  /\ UNCHANGED maskVars

NextLta == LtaRead \/ LtaLine \/ LtaReturn \/ LtaCallAgain

SpecLta == InitLta /\ [][NextLta]_vars


\* --------------------------------------------- fix_lta_length: properties
\* hist.orig is the disk when fix_lta_length was first called, and for the
\* k-th call that returned, hist.results[k] is the value returned,
\* hist.wrote[k] tells whether write_text ran, and hist.after[k] is the disk
\* it left.
LtaReturned == call = "fix_lta_length" /\ pc = "done"

\* The contents of the file before and after the k-th call.
Before(k) == IF k = 1 THEN hist.orig[LtaPath] ELSE hist.after[k - 1][LtaPath]

After(k) == hist.after[k][LtaPath]

\* The lines of a text, read off its characters: the positions where a line
\* starts, and the number of characters from there to the end of the line,
\* its LF not counted.
LineStarts(text) == {s \in 1..Len(text) : s = 1 \/ text[s - 1] = LF}

LineLength(text, s) ==
  CHOOSE n \in 0..(Len(text) - s + 1) :
    /\ \A i \in s..(s + n - 1) : text[i] # LF
    /\ s + n > Len(text) \/ text[s + n] = LF

IsFilenameLine(text, s) ==
  /\ s + Len(FilenamePrefix) - 1 <= Len(text)
  /\ \A i \in 1..Len(FilenamePrefix) : text[s + i - 1] = FilenamePrefix[i]

\* Some line of the file, read as text, starts with "filename = " and has
\* 255 characters or more.
HasLongFilenameLine(bytes) ==
  \E s \in LineStarts(ReadText(bytes)) :
    /\ IsFilenameLine(ReadText(bytes), s)
    /\ LineLength(ReadText(bytes), s) >= TooLong

\* Some line of the file has more than 255 characters.
HasLineOver(bytes) ==
  \E s \in LineStarts(ReadText(bytes)) : LineLength(ReadText(bytes), s) > TooLong

\* C13: on a file in which no line starting with "filename = " is too long,
\* fix_lta_length returns False and does not write the file: its contents
\* after the call are its contents before.
C13_ValidUntouched ==
  LtaReturned =>
    \A k \in 1..Len(hist.results) :
      ~HasLongFilenameLine(Before(k)) =>
         /\ hist.results[k] = FALSE
         /\ hist.wrote[k] = FALSE
         /\ After(k) = Before(k)

\* C13 witness: the first call returned False on a file it left alone, with
\* a "filename = " line one character under the limit, a longer line that
\* starts otherwise, and CR LF line ends.
C13_Witness ==
  /\ LtaReturned /\ Len(hist.results) = 1 /\ out = FALSE
  /\ disk = hist.orig
  /\ \E s, t \in LineStarts(ReadText(Before(1))) :
       /\ IsFilenameLine(ReadText(Before(1)), s)
       /\ LineLength(ReadText(Before(1)), s) = TooLong - 1
       /\ ~IsFilenameLine(ReadText(Before(1)), t)
       /\ LineLength(ReadText(Before(1)), t) > TooLong
  /\ \E i \in 1..Len(Before(1)) : Before(1)[i] = CR

Undefined == "<undefined>"

\* lta_outputs of the mixin itself (PatchedBBRegisterRPT and
\* PatchedMRICoregRPT keep it), of PatchedConcatenateLTA, of
\* PatchedLTAConvert and of PatchedRobustRegister.
LtaOutputs ==
  {<<"out_lta_file">>, <<"out_file">>, <<"out_lta">>,
   <<"out_reg_file", "half_source_xfm", "half_targ_xfm">>}

\* The files the outputs may name: two outputs may name the same one.
HookPaths == {"reg.lta", "half.lta"}

\* self._list_outputs(): every name of lta_outputs with a path or Undefined.
HookArgs ==
  UNION {[lta_outputs : {names}, outputs : [Range(names) -> HookPaths \cup {Undefined}]] :
           names \in LtaOutputs}

\* One-line transform files ended by LF or not at all; a path may be missing.
HookTexts == {text \in LastLines : \A i \in 1..Len(text) : text[i] # CR}

HookDisks == UNION {[paths -> HookTexts] : paths \in SUBSET HookPaths}

InitHook ==
  /\ call = "_post_run_hook" /\ pc = "hook_loop"
  /\ args \in HookArgs
  /\ disk \in HookDisks
  /\ locals = [i |-> 1]
  /\ hist = [orig |-> disk, fixed |-> <<>>, parent |-> FALSE]
  /\ out = None
  /\ NoMaskCall

\* A variant of the loop body that leaves the loop at the first undefined
\* output instead of going on to the next one.
HookOutputBreak ==
  /\ pc = "hook_loop" /\ locals.i <= Len(args.lta_outputs)
  /\ LET lta_file == args.outputs[args.lta_outputs[locals.i]]
     IN  IF lta_file = Undefined
         THEN /\ locals' = [locals EXCEPT !.i = Len(args.lta_outputs) + 1]
              /\ UNCHANGED <<pc, disk, hist>>
         ELSE IF lta_file \notin DOMAIN disk
         THEN /\ pc' = "raised"
              /\ UNCHANGED <<disk, locals, hist>>
         ELSE /\ disk' = [disk EXCEPT ![lta_file] = FixLtaLength(@).contents]
              /\ hist' = [hist EXCEPT !.fixed = Append(@, lta_file)]
              /\ locals' = [locals EXCEPT !.i = @ + 1]
              /\ UNCHANGED pc
  /\ UNCHANGED <<call, out, args>>
  /\ UNCHANGED maskVars

\* lines 243-248: one iteration of the loop; fix_lta_length raises on a
\* file that is missing, and hist.fixed lists the files it was applied to
HookOutput ==
  /\ pc = "hook_loop" /\ locals.i <= Len(args.lta_outputs)
  /\ LET lta_file == args.outputs[args.lta_outputs[locals.i]]
     IN  IF lta_file = Undefined
         THEN /\ locals' = [locals EXCEPT !.i = @ + 1]
              /\ UNCHANGED <<pc, disk, hist>>
         ELSE IF lta_file \notin DOMAIN disk
         THEN /\ pc' = "raised"
              /\ UNCHANGED <<disk, locals, hist>>
         ELSE /\ disk' = [disk EXCEPT ![lta_file] = FixLtaLength(@).contents]
              /\ hist' = [hist EXCEPT !.fixed = Append(@, lta_file)]
              /\ locals' = [locals EXCEPT !.i = @ + 1]
              /\ UNCHANGED pc
  /\ UNCHANGED <<call, out, args>>
  /\ UNCHANGED maskVars

\* lines 250-251, once the loop is exhausted: the parent class's hook runs
\* (it leaves the transform files alone) and its runtime is returned
HookParent ==
  /\ pc = "hook_loop" /\ locals.i > Len(args.lta_outputs)
  /\ hist' = [hist EXCEPT !.parent = TRUE]
  /\ out' = "runtime"
  /\ pc' = "done"
  /\ UNCHANGED <<call, disk, args, locals>>
  /\ UNCHANGED maskVars

NextHook == HookOutput \/ HookParent

SpecHook == InitHook /\ [][NextHook]_vars

\* The paths of the defined outputs among the first n names of lta_outputs,
\* in that order.
IsDefined(value) == value # Undefined

DefinedAmong(n) ==
  SelectSeq([k \in 1..n |-> args.outputs[args.lta_outputs[k]]], IsDefined)

\* C15: the hook applies fix_lta_length to each output of lta_outputs that
\* is defined, in order, and skips the undefined ones without error; the
\* parent class's hook is called only after all of them; and when the hook
\* returns no defined output file has a "filename = " line of 255 characters
\* or more.
C15_HookTruncates ==
  call = "_post_run_hook" =>
    /\ pc = "hook_loop" =>
         /\ hist.fixed = DefinedAmong(locals.i - 1)
         /\ ~hist.parent
    /\ pc = "raised" =>
         /\ ~hist.parent
         /\ args.outputs[args.lta_outputs[locals.i]] \in HookPaths \ DOMAIN disk
    /\ pc = "done" =>
         /\ hist.parent
         /\ hist.fixed = DefinedAmong(Len(args.lta_outputs))
         /\ \A name \in DOMAIN args.outputs :
              IsDefined(args.outputs[name]) =>
                ~HasLongFilenameLine(disk[args.outputs[name]])

\* C15 witness: the hook of PatchedRobustRegister returned; its first output
\* was undefined, the two others named different files with a "filename = "
\* line too long, and both files were truncated.
C15_Witness ==
  /\ call = "_post_run_hook" /\ pc = "done"
  /\ Len(args.lta_outputs) = 3
  /\ args.outputs[args.lta_outputs[1]] = Undefined
  /\ IsDefined(args.outputs[args.lta_outputs[2]])
  /\ IsDefined(args.outputs[args.lta_outputs[3]])
  /\ args.outputs[args.lta_outputs[2]] # args.outputs[args.lta_outputs[3]]
  /\ \A path \in HookPaths :
       /\ HasLongFilenameLine(hist.orig[path])
       /\ disk[path] = PathTooLong


\* ------------------------------------------------ grow_mask: wrapped windows
\* On some axis the candidate is closer than ww to the low face, and the
\* slice start, counted from the end of the axis, is not below the stop.
WrapsToEmpty(p) ==
  \E axis \in 1..3 :
    /\ p[axis] < ww
    /\ Shape[axis] - (ww - p[axis]) >= p[axis] + ww

\* C16: the window bounds are not clipped.  For a candidate with p < ww on
\* an axis of length n the start p - ww counts from the end of the axis, and
\* when n - (ww - p) >= p + ww the window is empty: the statistical test
\* never includes the candidate, only ants_segs == 2 can.
C16_WrappedWindowEmpty ==
  InLoop =>
    \A p \in Visited :
      WrapsToEmpty(p) =>
        /\ \A axis \in 1..3 :
             (p[axis] < ww /\ Shape[axis] - (ww - p[axis]) >= p[axis] + ww) =>
                SliceBound(p[axis] - ww, Shape[axis]) = Shape[axis] - (ww - p[axis])
        /\ Window(p, ww) = {}
        /\ refined[p] = 1 <=> ants_segs[p] = AtroposGM

\* C16 witness: the loop is over; a candidate whose window wrapped to
\* nothing was left out although a gray-matter voxel of its own intensity
\* lies within ww of it.
C16_Witness ==
  /\ InLoop /\ indices = <<>>
  /\ \E p \in Visited :
       /\ WrapsToEmpty(p) /\ ants_segs[p] # AtroposGM /\ refined[p] = 0
       /\ \E v \in WindowClipped(p, ww) : gm[v] > 0 /\ gm[v] = anat[p]


\* ------------------------------------------------------------ detect_inputs
\* Voxel sizes are counted in hundredths of a millimetre, and the sizes
\* tried are exact multiples of it.  An argument that
\* is None, or an input trait that is not defined, is a field missing from
\* `args`; a result that is None is PyNone.  disk maps each image file to
\* the zooms of its header.
PyNone == "None"

MaxOf(zooms) ==
  CHOOSE m \in Range(zooms) : \A other \in Range(zooms) : other <= m

\* A variant that tests the FLAIR without looking at the T2w chosen.
DetectInputsBoth(given, headers) ==
  LET t2w_list == IF "t2w_list" \in DOMAIN given THEN given.t2w_list ELSE <<>>
      flair_list == IF "flair_list" \in DOMAIN given THEN given.flair_list ELSE <<>>
      hires == given.hires_enabled /\ MaxOf(headers[given.t1w_list[1]]) < HiresBelow
      t2w == IF t2w_list # <<>> /\ MaxOf(headers[t2w_list[1]]) < RefBelow
             THEN t2w_list[1] ELSE PyNone
      flair == IF flair_list # <<>> /\ MaxOf(headers[flair_list[1]]) < RefBelow
               THEN flair_list[1] ELSE PyNone
  IN  [t2w |-> t2w, flair |-> flair, hires |-> hires,
       mris_inflate |-> IF hires THEN "-n 50" ELSE PyNone]

\* lines 440-459: the tuple detect_inputs returns, by name
DetectInputs(given, headers) ==
  LET t2w_list == IF "t2w_list" \in DOMAIN given THEN given.t2w_list ELSE <<>>
      flair_list == IF "flair_list" \in DOMAIN given THEN given.flair_list ELSE <<>>
      hires == given.hires_enabled /\ MaxOf(headers[given.t1w_list[1]]) < HiresBelow
      t2w == IF t2w_list # <<>> /\ MaxOf(headers[t2w_list[1]]) < RefBelow
             THEN t2w_list[1] ELSE PyNone
      flair == IF /\ flair_list # <<>>
                  /\ t2w = PyNone
                  /\ MaxOf(headers[flair_list[1]]) < RefBelow
               THEN flair_list[1] ELSE PyNone
  IN  [t2w |-> t2w, flair |-> flair, hires |-> hires,
       mris_inflate |-> IF hires THEN "-n 50" ELSE PyNone]

\* Headers: each image has one voxel size in plane and one across, on
\* either side of the two thresholds; the second image of a list is fine
\* enough to pass both.
ZoomSizes == {HiresBelow - 1, HiresBelow, RefBelow - 1, RefBelow}

Zooms == {<<a, a, b>> : a, b \in ZoomSizes}

Fine == <<HiresBelow - 1, HiresBelow - 1, HiresBelow - 1>>

Headers ==
  {[name \in {"T1w", "T2w", "T2w_2", "FLAIR", "FLAIR_2"} |->
      CASE name = "T1w" -> t1
        [] name = "T2w" -> t2
        [] name = "FLAIR" -> fl
        [] OTHER -> Fine] :
     t1 \in Zooms, t2 \in Zooms, fl \in Zooms}

\* The lists given to detect_inputs: t2w_list and flair_list may be left
\* out, and given directly they may be empty.
T2wLists == {<<"T2w">>, <<"T2w", "T2w_2">>}

FlairLists == {<<"FLAIR">>, <<"FLAIR", "FLAIR_2">>}

DetectArgs(t2w_lists, flair_lists) ==
  [t1w_list : {<<"T1w">>}, hires_enabled : BOOLEAN]
  \cup [t1w_list : {<<"T1w">>}, hires_enabled : BOOLEAN, t2w_list : t2w_lists]
  \cup [t1w_list : {<<"T1w">>}, hires_enabled : BOOLEAN, flair_list : flair_lists]
  \cup [t1w_list : {<<"T1w">>}, hires_enabled : BOOLEAN, t2w_list : t2w_lists,
        flair_list : flair_lists]

\* detect_inputs(t1w_list, t2w_list, flair_list, hires_enabled)
InitDetect ==
  /\ call = "detect_inputs" /\ pc = "detect"
  /\ args \in DetectArgs(T2wLists \cup {<<>>}, FlairLists \cup {<<>>})
  /\ disk \in Headers
  /\ locals = None /\ hist = None /\ out = None
  /\ NoMaskCall

\* FSDetectInputs()._run_interface(runtime) with its input traits set
InitInterface ==
  /\ call = "FSDetectInputs" /\ pc = "detect"
  /\ args \in DetectArgs(T2wLists, FlairLists)
  /\ disk \in Headers
  /\ locals = None /\ hist = None /\ out = None
  /\ NoMaskCall

\* lines 440-459, called directly
DetectRun ==
  /\ call = "detect_inputs" /\ pc = "detect"
  /\ out' = DetectInputs(args, disk)
  /\ pc' = "done"
  /\ UNCHANGED <<call, disk, args, locals, hist>>
  /\ UNCHANGED maskVars

\* lines 197-204: an undefined list is passed as None; self._results["hires"]
\* is set from the tuple returned
InterfaceDetect ==
  /\ call = "FSDetectInputs" /\ pc = "detect"
  /\ locals' = DetectInputs(args, disk)
  /\ out' = [hires |-> DetectInputs(args, disk).hires]
  /\ pc' = "results"
  /\ UNCHANGED <<call, disk, args, hist>>
  /\ UNCHANGED maskVars

\* lines 206-217: self._results
InterfaceResults ==
  /\ pc = "results"
  /\ out' =
       [key \in {"hires", "use_t2w", "use_flair"}
               \cup (IF locals.t2w # PyNone THEN {"t2w"} ELSE {})
               \cup (IF locals.flair # PyNone THEN {"flair"} ELSE {})
               \cup (IF out.hires THEN {"mris_inflate"} ELSE {}) |->
          CASE key = "hires" -> out.hires
            [] key = "use_t2w" -> locals.t2w # PyNone
            [] key = "use_flair" -> locals.flair # PyNone
            [] key = "t2w" -> locals.t2w
            [] key = "flair" -> locals.flair
            [] key = "mris_inflate" -> locals.mris_inflate]
  /\ pc' = "done"
  /\ UNCHANGED <<call, disk, args, locals, hist>>
  /\ UNCHANGED maskVars

NextDetect == DetectRun \/ InterfaceDetect \/ InterfaceResults

InitDetectOrInterface == InitDetect \/ InitInterface

SpecDetect == InitDetectOrInterface /\ [][NextDetect]_vars

\* The T2w list is given, is not empty, and the largest voxel size of its
\* first image is below 1.2 mm.
GoodT2w ==
  /\ "t2w_list" \in DOMAIN args
  /\ args.t2w_list # <<>>
  /\ \A axis \in 1..3 : disk[args.t2w_list[1]][axis] < RefBelow

\* C17: detect_inputs never selects both a T2w and a FLAIR (flair is not
\* None only if t2w is None), so FSDetectInputs never reports use_t2w and
\* use_flair together; a T2w with its largest voxel size below 1.2 is
\* preferred to any FLAIR; and mris_inflate is "-n 50" exactly when hires is
\* true.
C17_OneReference ==
  /\ (call = "detect_inputs" /\ pc = "done") =>
        /\ out.flair # PyNone => out.t2w = PyNone
        /\ GoodT2w => out.t2w = args.t2w_list[1] /\ out.flair = PyNone
        /\ out.mris_inflate = "-n 50" <=> out.hires
        /\ out.mris_inflate \in {"-n 50", PyNone}
  /\ (call = "FSDetectInputs" /\ pc = "done") =>
        /\ ~(out.use_t2w /\ out.use_flair)
        /\ GoodT2w => out.use_t2w /\ out.t2w = args.t2w_list[1]
        /\ "mris_inflate" \in DOMAIN out <=> out.hires
        /\ out.hires => out.mris_inflate = "-n 50"

\* C17 witness: FSDetectInputs, given a T2w and a FLAIR that both pass the
\* voxel-size test and a T1w fine enough for hires, reported the T2w only.
C17_Witness ==
  /\ call = "FSDetectInputs" /\ pc = "done"
  /\ GoodT2w
  /\ "flair_list" \in DOMAIN args
  /\ \A axis \in 1..3 : disk[args.flair_list[1]][axis] < RefBelow
  /\ out.use_t2w /\ ~out.use_flair /\ out.hires
  /\ out.mris_inflate = "-n 50"


\* ------------------------------------- fix_lta_length: what a call changes
\* The lines of a file as its bytes give them: each ends with its LF, a CR
\* before it included.
ByteLines(bytes) == SplitLines(bytes)

\* The characters of a line other than its line end.
Chars(line) == SelectSeq(line, LAMBDA c : c \notin {CR, LF})

IsLongFilename(line) ==
  StartsWith(line, FilenamePrefix) /\ Len(Chars(line)) >= TooLong

\* C18 as stated: after any call every line starting with "filename = " has
\* fewer than 255 characters, the over-long ones having been replaced by
\* "filename = path_too_long"; the number and order of the lines is
\* unchanged and every other line is byte-identical; and a second call
\* returns False and leaves the file unchanged.
C18_AsStated ==
  LtaReturned =>
    \A k \in 1..Len(hist.results) :
      /\ \A j \in 1..Len(ByteLines(After(k))) :
           ~IsLongFilename(ByteLines(After(k))[j])
      /\ Len(ByteLines(After(k))) = Len(ByteLines(Before(k)))
      /\ \A j \in 1..Len(ByteLines(Before(k))) :
           ByteLines(After(k))[j] =
             IF IsLongFilename(ByteLines(Before(k))[j]) THEN PathTooLong
             ELSE ByteLines(Before(k))[j]
      /\ k > 1 => hist.results[k] = FALSE /\ After(k) = Before(k)

\* What holds instead: the same with the other lines compared as text, that
\* is up to their line ends; a call that fixes a line rewrites the whole
\* file with LF line ends.
C18_UpToLineEnds ==
  LtaReturned =>
    \A k \in 1..Len(hist.results) :
      /\ \A j \in 1..Len(ByteLines(After(k))) :
           ~IsLongFilename(ByteLines(After(k))[j])
      /\ Len(ByteLines(After(k))) = Len(ByteLines(Before(k)))
      /\ \A j \in 1..Len(ByteLines(Before(k))) :
           ReadText(ByteLines(After(k))[j]) =
             IF IsLongFilename(ByteLines(Before(k))[j]) THEN PathTooLong
             ELSE ReadText(ByteLines(Before(k))[j])
      /\ hist.results[k] => \A i \in 1..Len(After(k)) : After(k)[i] # CR
      /\ k > 1 => hist.results[k] = FALSE /\ After(k) = Before(k)


\* ---------------------------------------------------- inject_skullstripped
\* disk holds the images of <subjects_dir>/<subject_id>/mri and the
\* skull-stripped inputs; an image is the tuple of its voxel values, and the
\* inputs are on the grid of T1.mgz, where nearest-neighbour resampling
\* keeps every value.
T1 == "mri/T1.mgz"

BmAuto == "mri/brainmask.auto.mgz"

Bm == "mri/brainmask.mgz"

Images == [{1, 2} -> {0, 1, 2}]

\* The skull-stripped images the caller may pass.
Brains == {"brain_a.nii", "brain_b.nii"}

BrainImages == {<<1, 0>>, <<0, 2>>}

\* new_img_like(img, img.dataobj * resample_to_img(mask > 0, img).dataobj)
Masked(img, mask) ==
  [v \in DOMAIN img |-> img[v] * (IF mask[v] > 0 THEN 1 ELSE 0)]

\* The files there; T1.mgz and either brain mask may be missing.
InjectDisks ==
  UNION {[Brains -> BrainImages] \X [present -> Images] :
           present \in SUBSET {T1, BmAuto, Bm}}

Merge(f, g) ==
  [path \in DOMAIN f \cup DOMAIN g |->
     IF path \in DOMAIN f THEN f[path] ELSE g[path]]

\* One more file on the disk, or new contents for one that is there.
WriteFile(files, path, contents) ==
  [p \in DOMAIN files \cup {path} |-> IF p = path THEN contents ELSE files[p]]

\* inject_skullstripped(subjects_dir, subject_id, skullstripped)
InitInject ==
  /\ call = "inject_skullstripped" /\ pc = "inject_auto"
  /\ args \in [skullstripped : Brains]
  /\ disk \in {Merge(d[1], d[2]) : d \in InjectDisks}
  /\ locals = None
  /\ hist = [orig |-> disk, log |-> <<>>, after |-> <<>>]
  /\ out = None
  /\ NoMaskCall

\* A variant of lines 423-431 that writes the auto mask whether it exists
\* or not.
InjectAutoAlways ==
  /\ pc = "inject_auto"
  /\ IF T1 \notin DOMAIN disk
     THEN /\ pc' = "raised"
          /\ UNCHANGED <<disk, hist>>
     ELSE /\ disk' = WriteFile(disk, BmAuto,
                               Masked(disk[T1], disk[args.skullstripped]))
          /\ hist' = [hist EXCEPT !.log =
                        Append(@, [path |-> BmAuto,
                                   existed |-> BmAuto \in DOMAIN disk,
                                   source |-> T1 \in DOMAIN disk])]
          /\ pc' = "inject_copy"
  /\ UNCHANGED <<call, out, args, locals>>
  /\ UNCHANGED maskVars

\* lines 423-431: nb.load raises when T1.mgz is missing; hist.log gets an
\* entry for every file written, telling whether the path existed and
\* whether the file it is made from did
InjectAuto ==
  /\ pc = "inject_auto"
  /\ IF BmAuto \in DOMAIN disk
     THEN /\ pc' = "inject_copy"
          /\ UNCHANGED <<disk, hist>>
     ELSE IF T1 \notin DOMAIN disk
     THEN /\ pc' = "raised"
          /\ UNCHANGED <<disk, hist>>
     ELSE /\ disk' = WriteFile(disk, BmAuto,
                               Masked(disk[T1], disk[args.skullstripped]))
          /\ hist' = [hist EXCEPT !.log =
                        Append(@, [path |-> BmAuto,
                                   existed |-> BmAuto \in DOMAIN disk,
                                   source |-> T1 \in DOMAIN disk])]
          /\ pc' = "inject_copy"
  /\ UNCHANGED <<call, out, args, locals>>
  /\ UNCHANGED maskVars

\* lines 433-436: the copy (or hard link) of the auto mask, and the return
InjectCopy ==
  /\ pc = "inject_copy"
  /\ IF Bm \in DOMAIN disk
     THEN /\ disk' = disk
          /\ hist' = [hist EXCEPT !.after = Append(@, disk)]
     ELSE /\ disk' = WriteFile(disk, Bm, disk[BmAuto])
          /\ hist' = [hist EXCEPT
                        !.log = Append(@, [path |-> Bm,
                                           existed |-> Bm \in DOMAIN disk,
                                           source |-> BmAuto \in DOMAIN disk]),
                        !.after = Append(@, disk')]
  /\ out' = <<"subjects_dir", "subject_id">>
  /\ pc' = "done"
  /\ UNCHANGED <<call, args, locals>>
  /\ UNCHANGED maskVars

\* FSInjectBrainExtracted always runs: the same subject is injected again,
\* with any skull-stripped image.
InjectAgain ==
  /\ call = "inject_skullstripped" /\ pc = "done"
  /\ Len(hist.after) < MaxCalls
  /\ args' \in [skullstripped : Brains]
  /\ out' = None
  /\ pc' = "inject_auto"
  /\ UNCHANGED <<call, disk, locals, hist>>
  /\ UNCHANGED maskVars

NextInject == InjectAuto \/ InjectCopy \/ InjectAgain

SpecInject == InitInject /\ [][NextInject]_vars

\* C19: inject_skullstripped never overwrites an existing file: each brain
\* mask is written only when it does not exist, brainmask.mgz is copied
\* after brainmask.auto.mgz is in place, and after any sequence of calls
\* both files exist with the contents they had after the first call.
C19_NeverOverwrites ==
  call = "inject_skullstripped" =>
    /\ \A i \in 1..Len(hist.log) :
         /\ hist.log[i].path \in {BmAuto, Bm}
         /\ ~hist.log[i].existed
         /\ hist.log[i].source
    /\ \A path \in DOMAIN hist.orig :
         path \in DOMAIN disk /\ disk[path] = hist.orig[path]
    /\ \A k \in 1..Len(hist.after) :
         /\ {BmAuto, Bm} \subseteq DOMAIN hist.after[k]
         /\ hist.after[k] = hist.after[1]
    /\ pc = "done" => disk = hist.after[Len(hist.after)]

\* C19 witness: with neither mask there at first, a second call with a
\* skull-stripped image that would give another mask returned, and both
\* files still hold the mask the first call made.
C19_Witness ==
  /\ call = "inject_skullstripped" /\ pc = "done"
  /\ Len(hist.after) = 2
  /\ BmAuto \notin DOMAIN hist.orig /\ Bm \notin DOMAIN hist.orig
  /\ Len(hist.log) = 2
  /\ disk[Bm] = disk[BmAuto]
  /\ disk[BmAuto] # Masked(disk[T1], disk[args.skullstripped])
  /\ \E brain \in Brains : disk[BmAuto] = Masked(disk[T1], disk[brain])


\* ------------------------------------------- grow_mask: where the mask grows
\* Voxel p is within bw of a voxel of the mask `base`.
Near(base, p) ==
  \E q \in Vox :
    /\ base[q] = 1
    /\ (p[1] - q[1]) * (p[1] - q[1]) + (p[2] - q[2]) * (p[2] - q[2])
         + (p[3] - q[3]) * (p[3] - q[3]) <= bw * bw

\* C20 (newmask is the base mask, the value refine_aseg(aseg) returned at
\* line 515): the loop changes only voxels of the candidate shell, which is
\* disjoint from the base mask; every other voxel keeps its base-mask value
\* until the opening; and the opening adds no voxel, so every voxel of the
\* mask returned lies in the dilation of the base mask by the ball of
\* radius bw.
C20_GrowsWithinShell ==
  call = "grow_mask" =>
    /\ pc = "loop" =>
         \A p \in Vox :
           /\ newrefmask[p] > 0 => newmask[p] = 0 /\ Near(newmask, p)
           /\ newrefmask[p] = 0 => refined[p] = newmask[p]
           /\ refined[p] \in {0, 1}
    /\ pc = "done" =>
         \A p \in Vox :
           /\ out[p] # 0 => Near(newmask, p)
           /\ out[p] # 0 => newmask[p] = 1 \/ newrefmask[p] > 0

\* C20 witness: grow_mask returned a mask that keeps one voxel of the shell
\* and not another, every voxel of it within bw of the base mask.
C20_Witness ==
  /\ call = "grow_mask" /\ pc = "done"
  /\ \E p, q \in Vox :
       /\ newrefmask[p] > 0 /\ out[p] = 1
       /\ newrefmask[q] > 0 /\ out[q] = 0
  /\ \E p \in Vox : ~Near(newmask, p)

=============================================================================
